---- MODULE Spec2Model ----
(***************************************************************************)
(* Model of the datadirsync agent (src/agent/main.py) and operator         *)
(* (src/operator/main.py): a poll / diff / resolve / dispatch loop that    *)
(* watches one branch of a git remote and restarts Kubernetes deployments  *)
(* by patching a rollout-time annotation.                                  *)
(*                                                                         *)
(* Strings are sequences of tokens; the separators the code splits on      *)
(* ("/" and ",") and the blank it strips (" ") are tokens of their own.    *)
(***************************************************************************)
EXTENDS Integers, Sequences, FiniteSets, TLC

VARIABLES
    variant,                \* which program runs: "agent" or "operator"
    history,                \* commits of the tracked branch on the remote; the tip is the last
    now,                    \* time.time(), advanced by time.sleep(POLL_INTERVAL)
    cluster,                \* the deployment objects of ROLLOUT_NAMESPACE, by name
    pc,                     \* position of main()
    deployment_map,         \* agent: the loaded routing table
    latest_commit,          \* latest_commit (agent) / last_commit (operator)
    new_commit,             \* revision returned by the last successful probe of the loop
    changed_files,          \* agent: result of get_changed_files
    affected_deployments,   \* agent: result of determine_affected_deployments
    deployment_names,       \* trigger_rollout: its comma-joined argument
    deployment_name_list,   \* trigger_rollout: deployment_names.split(',')
    idx,                    \* trigger_rollout: position of the for loop in deployment_name_list
    patched,                \* API server: the names patched by the current call of trigger_rollout
    rollout_cycle,          \* the poll (value of now) in which trigger_rollout was last called
    raised,                 \* the call that raised the exception that ended main(), if any
    exit_status             \* exit status of the process once pc = "EXITED"

vars == <<variant, history, now, cluster, pc, deployment_map, latest_commit,
          new_commit, changed_files, affected_deployments, deployment_names, patched, rollout_cycle,
          deployment_name_list, idx, raised, exit_status>>

----------------------------------------------------------------------------
(* Bounds of the model *)

MaxCommits == 3     \* commits ever present on the tracked branch
MaxTime == 3        \* polls performed by the loop

----------------------------------------------------------------------------
(* Strings *)

Range(s) == {s[k] : k \in 1..Len(s)}

Blank == <<>>                       \* the empty string ''
Whitespace == {" "}

\* split keeping only what precedes the first separator
split_first_only(s, sep) ==
    IF \E k \in 1..Len(s) : s[k] = sep
    THEN LET k == CHOOSE k \in 1..Len(s) : s[k] = sep /\ \A j \in 1..(k-1) : s[j] # sep
         IN  <<SubSeq(s, 1, k-1)>>
    ELSE <<s>>

\* str.split(sep)
RECURSIVE split(_, _)
split(s, sep) ==
    IF \E k \in 1..Len(s) : s[k] = sep
    THEN LET k == CHOOSE k \in 1..Len(s) : s[k] = sep /\ \A j \in 1..(k-1) : s[j] # sep
         IN  <<SubSeq(s, 1, k-1)>> \o split(SubSeq(s, k+1, Len(s)), sep)
    ELSE <<s>>

\* str.strip()
RECURSIVE strip(_)
strip(s) ==
    IF s = <<>> THEN s
    ELSE IF Head(s) \in Whitespace THEN strip(Tail(s))
    ELSE IF s[Len(s)] \in Whitespace THEN strip(SubSeq(s, 1, Len(s)-1))
    ELSE s

\* sep.join(list)
RECURSIVE join(_, _)
join(sep, list) ==
    IF list = <<>> THEN <<>>
    ELSE IF Len(list) = 1 THEN list[1]
    ELSE list[1] \o <<sep>> \o join(sep, Tail(list))

\* list(a_set): the elements of the set, each once, in an order the hash decides
ListsOf(S) ==
    {q \in [1..Cardinality(S) -> S] : \A i, j \in 1..Cardinality(S) : i # j => q[i] # q[j]}

----------------------------------------------------------------------------
(* The cluster *)

svcA == <<"A">>
svcB == <<"B">>
svcG == <<"G">>

\* the deployments that exist in ROLLOUT_NAMESPACE
Deployments == {svcA, svcB, svcG}

\* the fields of a deployment object, by their path in the object
RolloutTime == "spec.template.metadata.annotations.rollout-time"
OwnerAnnotation == "spec.template.metadata.annotations.owner"
Replicas == "spec.replicas"
Image == "spec.template.spec.containers.image"

\* a deployment nobody has restarted yet: no rollout-time annotation
InitialDeployment == (OwnerAnnotation :> 7) @@ (Replicas :> 2) @@ (Image :> 5)

\* patch = {"spec": {"template": {"metadata": {"annotations": {"rollout-time": str(time.time())}}}}}
patch_body(time) == (RolloutTime :> time)

\* the object replaced by the body, as replace_namespaced_deployment would do
apply_replace(object, patch) == patch

\* patch_namespaced_deployment: the fields of the body are merged into the object
apply_patch(object, patch) == patch @@ object

\* the rollout-time annotation of each deployment (0: none)
annotations ==
    [d \in Deployments |->
        IF RolloutTime \in DOMAIN cluster[d] THEN cluster[d][RolloutTime] ELSE 0]

\* operator: ROLLOUT_DEPLOYMENTS, here "A, B"
ROLLOUT_DEPLOYMENTS == <<"A", ",", " ", "B">>

----------------------------------------------------------------------------
(* The remote repository *)

NoRevision == 0

Star == <<"*">>
path_a == <<"a">>
path_b == <<"b">>
path_c == <<"c">>
path_a_x == <<"a", "/", "x">>
path_c_y == <<"c", "/", "y">>

\* a commit: the paths it touches, the lines of its message, whether it is a merge
Commit(files, message, merge) == [files |-> files, message |-> message, merge |-> merge]

MsgLine == <<"    ", "msg">>
MsgBlankLine == <<"    ">>

Commits ==
    { Commit(<<path_a_x>>, <<MsgLine>>, FALSE),                             \* one-line message
      Commit(<<path_b, path_a_x>>, <<MsgLine>>, FALSE),                     \* two paths
      Commit(<<path_b>>, <<MsgLine, MsgBlankLine, MsgLine>>, FALSE),        \* subject and body
      Commit(<<>>, <<MsgLine>>, FALSE),                                     \* --allow-empty
      Commit(<<>>, <<MsgLine>>, TRUE),                                      \* clean merge
      Commit(<<path_a_x, path_c_y>>, <<>>, FALSE) }                         \* empty message

InitialCommit == Commit(<<path_a_x>>, <<MsgLine>>, FALSE)

\* the revision `git ls-remote <url> refs/heads/<branch>` prints
Tip == Len(history)

\* stdout of `git show --name-only <commit>`, split into lines
GitShowLines(c) ==
    <<  <<"commit">>  >>
    \o (IF c.merge THEN << <<"Merge:">> >> ELSE <<>>)
    \o << <<"Author:">>, <<"Date:">> >>
    \o (IF c.message # <<>> THEN <<Blank>> \o c.message ELSE <<>>)
    \o (IF c.files # <<>> \/ c.merge THEN <<Blank>> \o c.files ELSE <<>>)

----------------------------------------------------------------------------
(* The routing tables the mapping file may hold *)

Tables ==
    { (path_a :> <<svcA>>) @@ (Star :> <<svcG>>),
      (path_a_x :> <<svcB>>) @@ (path_b :> <<svcA, svcB>>),
      (path_a :> <<svcA>>) @@ (path_a_x :> <<svcA, svcB>>),
      (path_c :> <<svcB>>),
      (path_b :> <<ROLLOUT_DEPLOYMENTS>>) }         \* one target written "A, B"

\* mappings yaml.safe_load returns as well: a key with an empty list, a key
\* whose list holds an empty string
InvalidTables ==
    { (path_a :> <<>>) @@ (Star :> <<svcG>>),
      (path_a :> <<Blank>>) }

----------------------------------------------------------------------------
(* Pure functions of the agent *)

SkippedLines == 6

\* get_changed_files: result.stdout.splitlines()[6:]
get_changed_files(commit) ==
    LET lines == GitShowLines(commit)
    IN  IF Len(lines) <= SkippedLines THEN <<>>
        ELSE SubSeq(lines, SkippedLines + 1, Len(lines))

\* folder_of taking the last segment, split('/')[-1], instead of the first
folder_of_last_segment(changed_file) ==
    split(changed_file, "/")[Len(split(changed_file, "/"))]

\* the folder of a changed file: changed_file.split('/')[0]
folder_of(changed_file) == split(changed_file, "/")[1]

\* the body of the for loop of determine_affected_deployments
RECURSIVE for_changed_file(_, _, _)
for_changed_file(files, map, affected) ==
    IF files = <<>> THEN affected
    ELSE LET changed_file == Head(files)
             a1 == IF changed_file \in DOMAIN map
                   THEN affected \cup Range(map[changed_file]) ELSE affected
             folder == folder_of(changed_file)
             a2 == IF folder \in DOMAIN map
                   THEN a1 \cup Range(map[folder]) ELSE a1
         IN  for_changed_file(Tail(files), map, a2)

\* determine_affected_deployments returning from inside the loop, after the first file
determine_affected_deployments_first_only(files, map) ==
    for_changed_file(IF files = <<>> THEN <<>> ELSE <<Head(files)>>, map,
                     IF Star \in DOMAIN map THEN Range(map[Star]) ELSE {})

\* determine_affected_deployments, before the final list(): the set it builds
determine_affected_deployments(files, map) ==
    for_changed_file(files, map,
                     IF Star \in DOMAIN map THEN Range(map[Star]) ELSE {})

\* the test of the TargetSet missing: trigger_rollout is called whatever the list
has_targets_always(affected) == TRUE

\* if affected_deployments: (a non-empty list is true)
has_targets(affected) == affected # <<>>

\* the for loop of trigger_rollout taken as finished one iteration early
loop_finished_early(i, list) == i >= Len(list)

\* the for loop of trigger_rollout has gone through deployment_name_list
loop_finished(i, list) == i > Len(list)

\* the comparison made with the previous probe instead of latest_commit
revision_changed_since_probe(new, latest) == new # new_commit

\* the comparison testing only that the probe returned a revision
revision_changed_any(new, latest) == new # NoRevision

\* new_commit != latest_commit
revision_changed(new, latest) == new # latest

----------------------------------------------------------------------------
(* The state machine of main() *)

NoException == "none"

Init ==
    /\ variant \in {"agent", "operator"}
    /\ history = <<InitialCommit>>
    /\ now = 0
    /\ cluster = [d \in Deployments |-> InitialDeployment]
    /\ pc = IF variant = "agent" THEN "CLONE" ELSE "INIT_PROBE"
    /\ deployment_map = <<>>
    /\ latest_commit = NoRevision
    /\ new_commit = NoRevision
    /\ changed_files = <<>>
    /\ affected_deployments = <<>>
    /\ deployment_names = <<>>
    /\ deployment_name_list = <<>>
    /\ idx = 1
    /\ patched = <<>>
    /\ rollout_cycle = 0
    /\ raised = NoException
    /\ exit_status = 0

\* an exception leaves main(): the agent's try/except logs it and main returns,
\* the operator has no handler and the interpreter exits with status 1
Raise(what, caught) ==
    /\ pc' = "EXITED"
    /\ raised' = what
    /\ exit_status' = IF caught THEN 0 ELSE 1

InTry == variant = "agent"

\* entering trigger_rollout(names, namespace)
EnterTriggerRollout(names) ==
    /\ deployment_names' = names
    /\ deployment_name_list' = split(names, ",")
    /\ idx' = 1
    /\ patched' = <<>>
    /\ rollout_cycle' = now
    /\ pc' = "DISPATCHING"

\* the remote: somebody pushes a commit to the tracked branch
Push ==
    /\ pc # "EXITED"
    /\ Len(history) < MaxCommits
    /\ \E c \in Commits : history' = Append(history, c)
    /\ UNCHANGED <<variant, now, cluster, pc, deployment_map, latest_commit,
                   new_commit, changed_files, affected_deployments, deployment_names, patched, rollout_cycle,
                   deployment_name_list, idx, raised, exit_status>>

\* agent: clone_repo(repo_url, GIT_BRANCH, repo_local_path), outside the try
CloneRepo ==
    /\ pc = "CLONE"
    /\ \/ /\ pc' = "LOAD"
          /\ UNCHANGED <<raised, exit_status>>
       \/ Raise("clone_repo", FALSE)
    /\ UNCHANGED <<variant, history, now, cluster, deployment_map, latest_commit,
                   new_commit, changed_files, affected_deployments, deployment_names, patched, rollout_cycle,
                   deployment_name_list, idx>>

\* agent: deployment_map = load_deployment_map(ROLLOUT_MAPPING_FILE)
LoadDeploymentMap ==
    /\ pc = "LOAD"
    /\ \/ /\ deployment_map' \in Tables \cup InvalidTables
          /\ pc' = "INIT_PROBE"
          /\ UNCHANGED <<raised, exit_status>>
       \/ /\ Raise("load_deployment_map", InTry)
          /\ UNCHANGED deployment_map
    /\ UNCHANGED <<variant, history, now, cluster, latest_commit,
                   new_commit, changed_files, affected_deployments, deployment_names, patched, rollout_cycle,
                   deployment_name_list, idx>>

\* latest_commit = get_latest_commit(...) before the loop
InitialProbe ==
    /\ pc = "INIT_PROBE"
    /\ \/ /\ latest_commit' = Tip
          /\ pc' = "WAITING"
          /\ UNCHANGED <<raised, exit_status>>
       \/ /\ Raise("get_latest_commit", InTry)
          /\ UNCHANGED latest_commit
    /\ UNCHANGED <<variant, history, now, cluster, deployment_map,
                   new_commit, changed_files, affected_deployments, deployment_names, patched, rollout_cycle,
                   deployment_name_list, idx>>

\* time.sleep(POLL_INTERVAL)
Sleep ==
    /\ pc = "WAITING"
    /\ now < MaxTime
    /\ now' = now + 1
    /\ pc' = "CHECKING"
    /\ UNCHANGED <<variant, history, cluster, deployment_map, latest_commit,
                   new_commit, changed_files, affected_deployments, deployment_names, patched, rollout_cycle,
                   deployment_name_list, idx, raised, exit_status>>

\* new_commit = get_latest_commit(...); if new_commit != latest_commit: ...
Probe ==
    /\ pc = "CHECKING"
    /\ \/ /\ new_commit' = Tip
          /\ IF revision_changed(Tip, latest_commit)
             THEN IF variant = "agent"
                  THEN /\ pc' = "DIFFING"
                       /\ UNCHANGED <<deployment_names, patched, rollout_cycle, deployment_name_list, idx>>
                  ELSE EnterTriggerRollout(ROLLOUT_DEPLOYMENTS)
             ELSE /\ pc' = "WAITING"
                  /\ UNCHANGED <<deployment_names, patched, rollout_cycle, deployment_name_list, idx>>
          /\ UNCHANGED <<raised, exit_status>>
       \/ /\ Raise("get_latest_commit", InTry)
          /\ UNCHANGED <<new_commit, deployment_names, patched, rollout_cycle, deployment_name_list, idx>>
    /\ UNCHANGED <<variant, history, now, cluster, deployment_map, latest_commit,
                   changed_files, affected_deployments>>

\* agent: changed_files = get_changed_files(repo_local_path, GIT_BRANCH, new_commit, ...)
Diff ==
    /\ pc = "DIFFING"
    /\ \/ /\ changed_files' = get_changed_files(history[new_commit])
          /\ pc' = "RESOLVING"
          /\ UNCHANGED <<raised, exit_status>>
       \/ /\ Raise("get_changed_files", InTry)
          /\ UNCHANGED changed_files
    /\ UNCHANGED <<variant, history, now, cluster, deployment_map, latest_commit,
                   new_commit, affected_deployments, deployment_names, patched, rollout_cycle,
                   deployment_name_list, idx>>

\* agent: affected_deployments = determine_affected_deployments(changed_files, deployment_map)
\*        if affected_deployments: trigger_rollout(','.join(affected_deployments), ...)
\*        else: latest_commit = new_commit
Resolve ==
    /\ pc = "RESOLVING"
    /\ affected_deployments' \in
           ListsOf(determine_affected_deployments(changed_files, deployment_map))
    /\ IF has_targets(affected_deployments')
       THEN /\ EnterTriggerRollout(join(",", affected_deployments'))
            /\ UNCHANGED latest_commit
       ELSE /\ latest_commit' = new_commit
            /\ pc' = "WAITING"
            /\ UNCHANGED <<deployment_names, patched, rollout_cycle, deployment_name_list, idx>>
    /\ UNCHANGED <<variant, history, now, cluster, deployment_map,
                   new_commit, changed_files, raised, exit_status>>

\* trigger_rollout: one iteration of the for loop,
\* v1_apps.patch_namespaced_deployment(name=deployment_name.strip(), ...)
Patch ==
    /\ pc = "DISPATCHING"
    /\ idx <= Len(deployment_name_list)
    /\ LET deployment_name == strip(deployment_name_list[idx])
       IN  \/ /\ deployment_name \in Deployments
              /\ cluster' = [cluster EXCEPT ![deployment_name] = apply_patch(@, patch_body(now))]
              /\ idx' = idx + 1
              /\ patched' = Append(patched, deployment_name)
              /\ UNCHANGED <<pc, raised, exit_status>>
           \/ /\ Raise("patch_namespaced_deployment", InTry)
              /\ UNCHANGED <<cluster, idx, patched>>
    /\ UNCHANGED <<variant, history, now, deployment_map, latest_commit,
                   new_commit, changed_files, affected_deployments, deployment_names, rollout_cycle,
                   deployment_name_list>>

\* trigger_rollout has returned: latest_commit = new_commit
Advance ==
    /\ pc = "DISPATCHING"
    /\ loop_finished(idx, deployment_name_list)
    /\ latest_commit' = new_commit
    /\ pc' = "WAITING"
    /\ UNCHANGED <<variant, history, now, cluster, deployment_map,
                   new_commit, changed_files, affected_deployments, deployment_names, patched, rollout_cycle,
                   deployment_name_list, idx, raised, exit_status>>

Next ==
    \/ Push
    \/ CloneRepo
    \/ LoadDeploymentMap
    \/ InitialProbe
    \/ Sleep
    \/ Probe
    \/ Diff
    \/ Resolve
    \/ Patch
    \/ Advance

Spec == Init /\ [][Next]_vars

\* the steps of the program; Push is the environment's
Program ==
    \/ CloneRepo
    \/ LoadDeploymentMap
    \/ InitialProbe
    \/ Sleep
    \/ Probe
    \/ Diff
    \/ Resolve
    \/ Patch
    \/ Advance

\* the single thread of main() keeps running while it has a statement to run
FairSpec == Spec /\ WF_vars(Program)

----------------------------------------------------------------------------
(* Definitions used to state the properties *)

\* the step is the return of a call made at position p of main()
Leaves(p) == pc = p /\ pc' # p

\* a commit whose `git show` output has the usual header: no Merge: line and a
\* one-line message, so that the path list starts at line 7
PlainCommit(c) == ~c.merge /\ Len(c.message) = 1

\* the paths touched by the revisions after old, up to and including new
PathsBetween(old, new) == UNION {Range(history[r].files) : r \in (old+1)..new}

\* the first '/'-separated segment of a path: what precedes its first "/"
FirstSegment(p) ==
    LET n == IF \E k \in 1..Len(p) : p[k] = "/"
             THEN CHOOSE k \in 1..Len(p) : p[k] = "/" /\ \A j \in 1..(k-1) : p[j] # "/"
             ELSE Len(p) + 1
    IN  [k \in 1..(n-1) |-> p[k]]

\* the TargetSet the resolution rules prescribe for a ChangeSet and a RoutingTable
PrescribedTargets(files, map) ==
    LET matched == {key \in DOMAIN map :
                       \/ key = Star
                       \/ \E n \in 1..Len(files) : files[n] = key
                       \/ \E n \in 1..Len(files) : FirstSegment(files[n]) = key}
    IN  UNION {Range(map[key]) : key \in matched}

\* the ChangeSets with the same entries as s, permuted or with entries repeated
Rearrangements(s) ==
    {q \in UNION {[1..n -> Range(s)] : n \in 0..(Len(s)+1)} : Range(q) = Range(s)}

NoDuplicates(s) == \A i, j \in 1..Len(s) : i # j => s[i] # s[j]

----------------------------------------------------------------------------
(* Properties *)

\* C1: when the restart call fails for one target of a dispatch, every other
\* target of that dispatch, before or after the failing one, still gets its
\* restart marker (its rollout-time annotation is set in this cycle).
C1_OthersStillRestarted ==
    raised = "patch_namespaced_deployment" =>
        \A k \in 1..Len(deployment_name_list) :
            k # idx => /\ strip(deployment_name_list[k]) \in Deployments
                       /\ annotations[strip(deployment_name_list[k])] = now

\* C2: whenever the dispatch of a CHANGED cycle ends, whether or not a
\* per-target restart failed, latest_commit becomes the probed revision and the
\* loop is back in WAITING.
C2_AdvanceAfterDispatch ==
    [][Leaves("DISPATCHING") => (latest_commit' = new_commit /\ pc' = "WAITING")]_vars

\* C3: a failing probe inside the loop sends the loop back to WAITING with
\* latest_commit unaltered and no diff, resolve or dispatch performed.
C3_ProbeFailureTolerated ==
    [][(pc = "CHECKING" /\ raised' = "get_latest_commit") =>
           /\ pc' = "WAITING"
           /\ UNCHANGED <<latest_commit, changed_files, affected_deployments, annotations>>]_vars

\* C4: once latest_commit is seeded, the process never terminates: the loop is
\* always waiting, checking, resolving (diffing or resolving) or dispatching.
C4_NeverTerminates ==
    latest_commit # NoRevision =>
        pc \in {"WAITING", "CHECKING", "DIFFING", "RESOLVING", "DISPATCHING"}

\* C5: when loading the routing table or the initial probe fails, the process
\* has terminated with a non-zero status, without a poll and without a restart.
C5_StartupFailureIsFatal ==
    (raised = "load_deployment_map"
        \/ (raised = "get_latest_commit" /\ latest_commit = NoRevision)) =>
        /\ pc = "EXITED"
        /\ exit_status # 0
        /\ now = 0
        /\ \A d \in Deployments : annotations[d] = 0

\* C6: a probe that returns the revision held in latest_commit ends the cycle
\* at once: the loop goes back to WAITING without a diff, a resolution or a
\* dispatch, and latest_commit is unchanged.
C6_UnchangedShortCircuits ==
    [][(Leaves("CHECKING") /\ raised' = NoException /\ new_commit' = latest_commit) =>
           /\ pc' = "WAITING"
           /\ UNCHANGED <<latest_commit, changed_files, affected_deployments,
                          deployment_names, deployment_name_list, idx, annotations>>]_vars

\* C6 witness: the loop is back in WAITING after a probe that returned the
\* seeded revision (revision 1 is only ever the seed).
C6_Witness ==
    /\ pc = "WAITING"
    /\ now >= 1
    /\ latest_commit = 1
    /\ new_commit = latest_commit

\* C7: the ChangeSet handed to the resolver is the set of paths changed between
\* latest_commit and the probed revision, intermediate revisions included.
\* Stated for cycles whose new revisions all have the usual six-line header, so
\* that the path list of `git show` is read correctly.
C7_ChangeSetCoversInterval ==
    (pc = "RESOLVING" /\ \A r \in (latest_commit+1)..new_commit : PlainCommit(history[r])) =>
        Range(changed_files) = PathsBetween(latest_commit, new_commit)

\* C8: the resolver returns exactly the union of the wildcard key's targets,
\* the targets of every changed path that is a key, and the targets of every
\* key equal to the first segment of a changed path; nothing else.
C8_ResolveIsPrescribedUnion ==
    [][Leaves("RESOLVING") =>
           Range(affected_deployments') = PrescribedTargets(changed_files, deployment_map)]_vars

\* C8 witness: a resolution in which a/x changed, a/x is not a key, and the
\* folder key a contributed its target.
C8_Witness ==
    /\ variant = "agent"
    /\ pc = "DISPATCHING"
    /\ path_a_x \in Range(changed_files)
    /\ path_a_x \notin DOMAIN deployment_map
    /\ path_a \in DOMAIN deployment_map
    /\ svcA \in Range(affected_deployments)

\* C9: resolving a ChangeSet whose entries are permuted or repeated gives the
\* same TargetSet, and the TargetSet returned holds no target twice.
C9_ResolveOrderIndependent ==
    [][Leaves("RESOLVING") =>
           /\ \A q \in Rearrangements(changed_files) :
                  determine_affected_deployments(q, deployment_map)
                      = Range(affected_deployments')
           /\ NoDuplicates(affected_deployments')]_vars

\* C9 witness: a resolution over two distinct changed paths that yielded two
\* targets.
C9_Witness ==
    /\ variant = "agent"
    /\ pc = "DISPATCHING"
    /\ changed_files = <<path_b, path_a_x>>
    /\ Len(affected_deployments) = 2

\* C10: whenever the resolver runs, the ChangeSet it is given is non-empty, and
\* the wildcard key's targets, if the key is present, are in the result.
C10_ResolveOnNonEmptyChangeSet ==
    [][(Leaves("RESOLVING") /\ PlainCommit(history[new_commit])) =>
           /\ changed_files # <<>>
           /\ Star \in DOMAIN deployment_map =>
                  Range(deployment_map[Star]) \subseteq Range(affected_deployments')]_vars

\* C11: a CHANGED cycle whose resolved TargetSet is empty ends without a
\* restart of any target (trigger_rollout is not entered, no annotation
\* changes) and with latest_commit advanced to the probed revision.
C11_EmptyTargetSetNoRestart ==
    [][(Leaves("RESOLVING") /\ affected_deployments' = <<>>) =>
           /\ pc' = "WAITING"
           /\ latest_commit' = new_commit
           /\ UNCHANGED <<annotations, deployment_names, deployment_name_list, idx>>]_vars

\* C11 witness: a cycle in which paths changed, no key matched, and the loop
\* is back in WAITING at the probed revision.
C11_Witness ==
    /\ variant = "agent"
    /\ pc = "WAITING"
    /\ changed_files # <<>>
    /\ Star \notin DOMAIN deployment_map
    /\ affected_deployments = <<>>
    /\ latest_commit = new_commit
    /\ \A d \in Deployments : annotations[d] = 0

\* C12: when get_changed_files fails in a CHANGED cycle, the cycle performs no
\* resolution and no dispatch, latest_commit still advances to the probed
\* revision and the loop goes on polling.
C12_DiffFailureAdvances ==
    [][(pc = "DIFFING" /\ raised' = "get_changed_files") =>
           /\ pc' = "WAITING"
           /\ latest_commit' = new_commit
           /\ UNCHANGED <<affected_deployments, annotations>>]_vars

\* a RoutingTable: every key maps to a non-empty collection of non-empty strings
ValidRoutingTable(map) ==
    \A key \in DOMAIN map :
        /\ map[key] # <<>>
        /\ \A n \in 1..Len(map[key]) : map[key][n] # Blank

\* C13: loading fails fast on a mapping that is not a RoutingTable: past the
\* load, the agent never probes, resolves or dispatches with a table in which a
\* key maps to an empty value or to something else than non-empty strings.
C13_InvalidTableRejected ==
    (variant = "agent"
        /\ pc \in {"INIT_PROBE", "WAITING", "CHECKING", "DIFFING", "RESOLVING", "DISPATCHING"}) =>
        ValidRoutingTable(deployment_map)

\* C14: once seeded, latest_commit changes only in the step that ends a CHANGED
\* cycle, after the for loop of trigger_rollout has gone through every target
\* (or when there is no target), and only to the revision the cycle's probe
\* returned; while a diff, a resolution or a dispatch of the cycle is pending,
\* latest_commit is not yet the new revision; a step that raises leaves it alone.
C14_RevisionUpdatedLast ==
    /\ [](pc \in {"DIFFING", "RESOLVING", "DISPATCHING"} => latest_commit # new_commit)
    /\ [][(latest_commit # NoRevision /\ latest_commit' # latest_commit) =>
              /\ pc \in {"RESOLVING", "DISPATCHING"}
              /\ pc' = "WAITING"
              /\ latest_commit' = new_commit
              /\ pc = "DISPATCHING" => idx > Len(deployment_name_list)
              /\ pc = "RESOLVING" => affected_deployments' = <<>>]_vars
    /\ [][raised' # NoException => latest_commit' = latest_commit]_vars

\* C14 witness: a cycle that restarted a deployment has ended and latest_commit
\* is the revision its probe returned.
C14_Witness ==
    /\ pc = "WAITING"
    /\ now >= 1
    /\ \E d \in Deployments : annotations[d] = now
    /\ latest_commit = new_commit
    /\ latest_commit >= 2

\* C15: whatever the header of the `git show` output, the ChangeSet returned by
\* get_changed_files holds every path of the revision and no metadata line.
C15_ChangeSetIsPathList ==
    pc = "RESOLVING" => changed_files = history[new_commit].files

\* the fields of a deployment object other than the restart marker
OtherFields(object) == [f \in DOMAIN object \ {RolloutTime} |-> object[f]]

\* C16: a restart changes the rollout-time annotation of the one deployment it
\* names and nothing else, and however many times deployments are restarted
\* their objects are, apart from the marker, what they were before any restart.
C16_RestartOnlySetsMarker ==
    /\ [](\A d \in Deployments : OtherFields(cluster[d]) = OtherFields(InitialDeployment))
    /\ [][cluster' # cluster =>
              \E d \in Deployments :
                  /\ \A e \in Deployments \ {d} : cluster'[e] = cluster[e]
                  /\ DOMAIN cluster'[d] = DOMAIN cluster[d] \cup {RolloutTime}
                  /\ OtherFields(cluster'[d]) = OtherFields(cluster[d])
                  /\ cluster'[d][RolloutTime] = now]_vars

\* C16 witness: the operator has restarted deployment A a second time, in a
\* later cycle than its last restart of B (it restarts A before B in each round).
C16_Witness ==
    /\ variant = "operator"
    /\ annotations[svcB] >= 1
    /\ annotations[svcA] > annotations[svcB]

\* the loop has performed the last poll the model follows
Horizon == pc = "WAITING" /\ now = MaxTime

\* C17: in every fair run that starts up and in which no probe fails, whatever diff or dispatch
\* failure occurs, latest_commit ends up equal to the revision at which the
\* remote tip settles (as far as the polls of the model go).
C17_RevisionEventuallyCaughtUp ==
    [](raised \notin {"clone_repo", "load_deployment_map", "get_latest_commit"})
        => <>[](latest_commit = Tip \/ Horizon)

\* the agent's trigger_rollout has returned without an exception
RolloutSucceeded == variant = "agent" /\ Leaves("DISPATCHING") /\ pc' = "WAITING"

\* a name that holds no comma and neither starts nor ends with a blank
PlainName(n) ==
    /\ n # Blank
    /\ "," \notin Range(n)
    /\ Head(n) \notin Whitespace
    /\ n[Len(n)] \notin Whitespace

\* C18, as stated: for a TargetSet of non-empty names, the names patched by a
\* fully successful dispatch are the names of the TargetSet, each once.
C18_PatchedIsTargetSet ==
    [][(RolloutSucceeded /\ \A n \in Range(affected_deployments) : n # Blank) =>
           /\ Range(patched) = Range(affected_deployments)
           /\ Len(patched) = Len(affected_deployments)]_vars

\* C18, amended: for a TargetSet of non-empty names none of which holds a comma
\* or starts or ends with a blank, the names patched by a fully successful
\* dispatch are the names of the TargetSet, each once: the comma-joined string,
\* split and stripped, gives the names back.
C18_PatchedIsPlainTargetSet ==
    [][(RolloutSucceeded /\ \A n \in Range(affected_deployments) : PlainName(n)) =>
           /\ Range(patched) = Range(affected_deployments)
           /\ Len(patched) = Len(affected_deployments)
           /\ NoDuplicates(patched)]_vars

\* C18 witness: a dispatch over two plain names has returned, both patched in
\* this cycle.
C18_Witness ==
    /\ variant = "agent"
    /\ pc = "WAITING"
    /\ rollout_cycle = now
    /\ Len(affected_deployments) = 2
    /\ \A n \in Range(affected_deployments) : PlainName(n)
    /\ Len(patched) = 2

\* C19: a restart is only issued inside a dispatch, a dispatch only runs in a
\* poll whose probe returned a revision other than latest_commit, a poll starts
\* at most one dispatch, and from a resting loop whose latest_commit is the
\* remote tip no step but a push leads to a diff, a dispatch or a restart.
C19_RestartsOnlyOnChange ==
    /\ [](pc = "DISPATCHING" => (new_commit # latest_commit /\ rollout_cycle = now))
    /\ [][(cluster' # cluster \/ Len(patched') > Len(patched)
              \/ raised' = "patch_namespaced_deployment") => pc = "DISPATCHING"]_vars
    /\ [][(pc # "DISPATCHING" /\ pc' = "DISPATCHING") =>
              (rollout_cycle # now /\ new_commit' # latest_commit)]_vars
    /\ [][(pc \in {"WAITING", "CHECKING"} /\ latest_commit = Tip /\ history' = history) =>
              (pc' \in {"WAITING", "CHECKING", "EXITED"} /\ cluster' = cluster)]_vars

\* C19 witness: the operator restarted a deployment in an earlier poll, and a
\* later poll has ended without a dispatch, latest_commit being the remote tip.
C19_Witness ==
    /\ variant = "operator"
    /\ pc = "WAITING"
    /\ latest_commit = Tip
    /\ new_commit = Tip
    /\ rollout_cycle >= 1
    /\ rollout_cycle < now
    /\ \E d \in Deployments : annotations[d] = rollout_cycle

====
